---------------------------- MODULE Spec2Model ----------------------------
(***************************************************************************)
(* Model of demo/03-wow-a-triangle: a GLFW window, one shader program, one *)
(* triangle, and a render loop that spins the triangle until the window is *)
(* asked to close.                                                         *)
(*                                                                         *)
(* The program is sequential; pc is the position of main().  Every GL or   *)
(* GLFW call that the properties talk about is one action.                 *)
(*                                                                         *)
(* Numbers.  GLfloat is IEEE-754 binary32.  Every velocity the program can *)
(* hold is an integer multiple of 2^-33 (the unit in the last place of the *)
(* literal 0.001), so a velocity is modelled by that integer and an f32    *)
(* addition by an exact integer addition followed by rounding to 24        *)
(* significant bits, ties to even.                                         *)
(*                                                                         *)
(* Quaternions.  cgmath's sin/cos arithmetic is outside the repository; a  *)
(* quaternion is modelled by the term that computes it: the identity, a    *)
(* single-axis rotation of a given angle, or a product of two terms.  Two  *)
(* terms are equal only if they were built by the same multiplications in  *)
(* the same order with the same angles.                                    *)
(***************************************************************************)
EXTENDS Integers, Sequences, FiniteSets, TLC

\* Bound on the number of frames the loop is allowed to start.
MaxFrames == 5
\* Bound on the number of key events GLFW queues in one poll_events call.
MaxEvents == 2

\* The literals 0.001 and 0.003 as binary32 values, in units of 2^-33.
DeltaX == 8589935
DeltaY == 25769804
DeltaZ == 8589935
\* binary32 has a 24 bit significand.
F32Significand == 16777216

VARIABLES
    pc,           \* position of main()
    glfwStatus,   \* result of glfw::init: "pending", "ok", "failed"
    windowStatus, \* result of create_window: "pending", "ok", "failed"
    shouldClose,  \* the window's close flag (window.should_close())
    events,       \* the event receiver: key events queued by poll_events
    shaderStatus, \* compile/link status of vs, fs, program: "none", "ok", "failed"
    created,      \* how many times each GPU object has been created
    deleted,      \* the GPU objects deleted so far, in deletion order
    velx, vely, velz, \* angular velocities, in units of 2^-33
    quat,         \* accumulated quaternion (a term)
    uniform,      \* value last uploaded to the modelview uniform
    frames,       \* number of completed loop iterations
    steps,        \* the steps the current iteration has performed so far
    nUniform, nDraw, nSwap, \* numbers of UniformMatrix4fv, DrawArrays, swap_buffers calls
    escFrame,     \* history: frame in which the first Escape press was delivered (0: none)
    osClose,      \* history: the window system asked for the window to close
    closeFrame,   \* history: frame in which the close flag was first set (-1: not set, 0: before the loop)
    ignored       \* history: number of events the last handle_events matched with the `_` arm

vars == <<pc, glfwStatus, windowStatus, shouldClose, events, shaderStatus, created,
          deleted, velx, vely, velz, quat, uniform, frames, steps,
          nUniform, nDraw, nSwap, escFrame, osClose, closeFrame, ignored>>

gpu   == <<shaderStatus, created, deleted>>
anim  == <<velx, vely, velz, quat, uniform>>
count == <<nUniform, nDraw, nSwap>>
hist  == <<escFrame, osClose, closeFrame, ignored>>

-----------------------------------------------------------------------------
(* Data *)

Objects == {"vs", "fs", "program", "vao", "vbo"}

Keys       == {"Escape", "A"}
KeyActions == {"Press", "Release", "Repeat"}
\* glfw::KeyEvent(key, scancode, action, modifiers); the scancode and the
\* modifiers are matched by wildcards and are left out.
KeyEvent   == [key : Keys, action : KeyActions]

SeqsUpTo(S, n) == UNION {[1..k -> S] : k \in 0..n}

\* The order of the statements of one loop iteration.
FrameOrder == <<"poll_events", "handle_events", "clear", "update_vel",
                "compose", "uniform", "draw", "swap">>

-----------------------------------------------------------------------------
(* binary32 arithmetic on multiples of 2^-33 *)

Abs(v) == IF v < 0 THEN -v ELSE v

\* Unit in the last place of a magnitude a, in units of 2^-33.
RECURSIVE Ulp(_)
Ulp(a) == IF a < F32Significand THEN 1 ELSE 2 * Ulp(a \div 2)

\* Round to nearest binary32, ties to even.
F32Round(v) ==
    LET a  == Abs(v)
        u  == Ulp(a)
        r  == a % u
        lo == a - r
        m  == IF 2 * r < u THEN lo
              ELSE IF 2 * r > u THEN lo + u
              ELSE IF (lo \div u) % 2 = 0 THEN lo ELSE lo + u
    IN  IF v < 0 THEN -m ELSE m

F32Add(x, y) == F32Round(x + y)

-----------------------------------------------------------------------------
(* Quaternion terms *)

QuatIdentity == [op |-> "identity"]
from_angle_x(theta) == [op |-> "rot", axis |-> "x", angle |-> theta]
from_angle_y(theta) == [op |-> "rot", axis |-> "y", angle |-> theta]
from_angle_z(theta) == [op |-> "rot", axis |-> "z", angle |-> theta]
\* self.mul_q(other): the Hamilton product self * other.
mul_q(self, other) == [op |-> "mul", l |-> self, r |-> other]
to_matrix4(q) == [mat4 |-> q]

-----------------------------------------------------------------------------
(* handle_events *)

\* Variant: the action of the key event is not matched (any Escape event closes).
MatchEvent_anyAction(flag, event) ==
    IF event.key = "Escape" THEN TRUE ELSE flag

\* One arm of the match: KeyEvent(KeyEscape, _, Press, _) => set_should_close(true).
MatchEvent(flag, event) ==
    IF event.key = "Escape" /\ event.action = "Press" THEN TRUE ELSE flag

\* for (_, event) in flush_messages(events) { match event ... }
RECURSIVE FlushAndMatch(_, _)
FlushAndMatch(flag, q) ==
    IF q = <<>> THEN flag
    ELSE FlushAndMatch(MatchEvent(flag, Head(q)), Tail(q))

HasEscapePress(q) ==
    \E i \in DOMAIN q : q[i].key = "Escape" /\ q[i].action = "Press"

-----------------------------------------------------------------------------
(* Initial state *)

Init ==
    /\ pc = "glfw_init"
    /\ glfwStatus = "pending"
    /\ windowStatus = "pending"
    /\ shouldClose = FALSE
    /\ events = <<>>
    /\ shaderStatus = [o \in {"vs", "fs", "program"} |-> "none"]
    /\ created = [o \in Objects |-> 0]
    /\ deleted = <<>>
    /\ velx = 0 /\ vely = 0 /\ velz = 0
    /\ quat = QuatIdentity
    /\ uniform = to_matrix4(QuatIdentity)
    /\ frames = 0
    /\ steps = <<>>
    /\ nUniform = 0 /\ nDraw = 0 /\ nSwap = 0
    /\ escFrame = 0
    /\ osClose = FALSE
    /\ closeFrame = -1
    /\ ignored = 0

-----------------------------------------------------------------------------
(* Start-up *)

\* Variant: the result of glfw::init is not unwrapped.
GlfwInit_ignoreError ==
    /\ pc = "glfw_init"
    /\ \E ok \in BOOLEAN : glfwStatus' = IF ok THEN "ok" ELSE "failed"
    /\ pc' = "create_window"
    /\ UNCHANGED <<windowStatus, shouldClose, events, gpu, anim, frames, steps, count, hist>>

\* glfw::init(glfw::FAIL_ON_ERRORS).unwrap()
GlfwInit ==
    /\ pc = "glfw_init"
    /\ \E ok \in BOOLEAN :
        /\ glfwStatus' = IF ok THEN "ok" ELSE "failed"
        /\ pc' = IF ok THEN "create_window" ELSE "aborted"
    /\ UNCHANGED <<windowStatus, shouldClose, events, gpu, anim, frames, steps, count, hist>>

\* glfw.create_window(800, 600, "Spiiiin", Windowed).expect(...), followed by
\* set_key_polling, make_current and gl::load_with.  The window system may ask
\* for the window to close as soon as the window exists (pending).
CreateWindow ==
    /\ pc = "create_window"
    /\ \E ok \in BOOLEAN, pending \in BOOLEAN :
        /\ windowStatus' = IF ok THEN "ok" ELSE "failed"
        /\ pc' = IF ok THEN "compile_vs" ELSE "aborted"
        /\ shouldClose' = (ok /\ pending)
        /\ osClose' = (ok /\ pending)
        /\ closeFrame' = IF ok /\ pending THEN 0 ELSE closeFrame
    /\ UNCHANGED <<glfwStatus, events, gpu, anim, frames, steps, count, escFrame, ignored>>

\* compile_shader: CreateShader, ShaderSource, CompileShader; the compile
\* status is never read.
CompileShader(at, obj, next) ==
    /\ pc = at
    /\ \E ok \in BOOLEAN :
        shaderStatus' = [shaderStatus EXCEPT ![obj] = IF ok THEN "ok" ELSE "failed"]
    /\ created' = [created EXCEPT ![obj] = @ + 1]
    /\ pc' = next
    /\ UNCHANGED <<glfwStatus, windowStatus, shouldClose, events, deleted, anim,
                   frames, steps, count, hist>>

CompileVertexShader   == CompileShader("compile_vs", "vs", "compile_fs")
CompileFragmentShader == CompileShader("compile_fs", "fs", "link_program")

\* link_program: CreateProgram, AttachShader x2, LinkProgram; the link status
\* is never read.  Linking cannot succeed unless both stages compiled.
LinkProgram ==
    /\ pc = "link_program"
    /\ \E ok \in BOOLEAN :
        shaderStatus' = [shaderStatus EXCEPT !["program"] =
            IF ok /\ shaderStatus["vs"] = "ok" /\ shaderStatus["fs"] = "ok"
            THEN "ok" ELSE "failed"]
    /\ created' = [created EXCEPT !["program"] = @ + 1]
    /\ pc' = "gen_vao"
    /\ UNCHANGED <<glfwStatus, windowStatus, shouldClose, events, deleted, anim,
                   frames, steps, count, hist>>

\* gl::GenVertexArrays(1, &mut vao); gl::BindVertexArray(vao)
GenVertexArray ==
    /\ pc = "gen_vao"
    /\ created' = [created EXCEPT !["vao"] = @ + 1]
    /\ pc' = "gen_vbo"
    /\ UNCHANGED <<glfwStatus, windowStatus, shouldClose, events, shaderStatus,
                   deleted, anim, frames, steps, count, hist>>

\* gl::GenBuffers(1, &mut vbo); BindBuffer; BufferData
GenBuffer ==
    /\ pc = "gen_vbo"
    /\ created' = [created EXCEPT !["vbo"] = @ + 1]
    /\ pc' = "setup_attribs"
    /\ UNCHANGED <<glfwStatus, windowStatus, shouldClose, events, shaderStatus,
                   deleted, anim, frames, steps, count, hist>>

\* UseProgram, attribute layout, GetUniformLocation, and the initial values of
\* quat, velx, vely, velz.
SetupAttribs ==
    /\ pc = "setup_attribs"
    /\ quat' = QuatIdentity
    /\ velx' = 0 /\ vely' = 0 /\ velz' = 0
    /\ pc' = "loop_top"
    /\ UNCHANGED <<glfwStatus, windowStatus, shouldClose, events, gpu, uniform,
                   frames, steps, count, hist>>

-----------------------------------------------------------------------------
(* Render loop *)

\* while !window.should_close(): the flag is clear, the body starts.
LoopEnter ==
    /\ pc = "loop_top"
    /\ ~shouldClose
    /\ frames < MaxFrames
    /\ steps' = <<>>
    /\ pc' = "poll_events"
    /\ UNCHANGED <<glfwStatus, windowStatus, shouldClose, events, gpu, anim,
                   frames, count, hist>>

\* Variant: the loop condition is inverted.
LoopExit_inverted ==
    /\ pc = "loop_top"
    /\ ~shouldClose
    /\ pc' = "delete_program"
    /\ UNCHANGED <<glfwStatus, windowStatus, shouldClose, events, gpu, anim,
                   frames, steps, count, hist>>

\* while !window.should_close(): the flag is set, the loop ends.
LoopExit ==
    /\ pc = "loop_top"
    /\ shouldClose
    /\ pc' = "delete_program"
    /\ UNCHANGED <<glfwStatus, windowStatus, shouldClose, events, gpu, anim,
                   frames, steps, count, hist>>

\* glfw.poll_events(): GLFW queues the key events that arrived and records a
\* close request of the window system in the close flag.
PollEvents ==
    /\ pc = "poll_events"
    /\ \E batch \in SeqsUpTo(KeyEvent, MaxEvents), close \in BOOLEAN :
        /\ events' = events \o batch
        /\ shouldClose' = (shouldClose \/ close)
        /\ osClose' = (osClose \/ close)
        /\ escFrame' = IF escFrame = 0 /\ HasEscapePress(batch)
                       THEN frames + 1 ELSE escFrame
        /\ closeFrame' = IF close /\ ~shouldClose THEN frames + 1 ELSE closeFrame
    /\ steps' = Append(steps, "poll_events")
    /\ pc' = "handle_events"
    /\ UNCHANGED <<glfwStatus, windowStatus, gpu, anim, frames, count, ignored>>

\* Variant: the flag is overwritten with the result of the match, which
\* forgets a close request of the window system.
HandleEvents_overwrite ==
    /\ pc = "handle_events"
    /\ shouldClose' = FlushAndMatch(FALSE, events)
    /\ events' = <<>>
    /\ closeFrame' = IF shouldClose' /\ ~shouldClose THEN frames + 1 ELSE closeFrame
    /\ ignored' = Cardinality({i \in DOMAIN events : MatchEvent(FALSE, events[i]) = FALSE})
    /\ steps' = Append(steps, "handle_events")
    /\ pc' = "clear"
    /\ UNCHANGED <<glfwStatus, windowStatus, gpu, anim, frames, count, escFrame, osClose>>

\* Variant: the loop is left as soon as the flag is set, without rendering
\* the rest of the frame.
HandleEvents_break ==
    /\ pc = "handle_events"
    /\ shouldClose' = FlushAndMatch(shouldClose, events)
    /\ events' = <<>>
    /\ closeFrame' = IF shouldClose' /\ ~shouldClose THEN frames + 1 ELSE closeFrame
    /\ ignored' = Cardinality({i \in DOMAIN events : MatchEvent(FALSE, events[i]) = FALSE})
    /\ steps' = Append(steps, "handle_events")
    /\ pc' = IF shouldClose' THEN "loop_top" ELSE "clear"
    /\ UNCHANGED <<glfwStatus, windowStatus, gpu, anim, frames, count, escFrame, osClose>>

\* handle_events(&window, &events)
HandleEvents ==
    /\ pc = "handle_events"
    /\ shouldClose' = FlushAndMatch(shouldClose, events)
    /\ events' = <<>>
    /\ closeFrame' = IF shouldClose' /\ ~shouldClose THEN frames + 1 ELSE closeFrame
    /\ ignored' = Cardinality({i \in DOMAIN events : MatchEvent(FALSE, events[i]) = FALSE})
    /\ steps' = Append(steps, "handle_events")
    /\ pc' = "clear"
    /\ UNCHANGED <<glfwStatus, windowStatus, gpu, anim, frames, count, escFrame, osClose>>

\* gl::ClearColor(0.0, 0.0, 0.0, 1.0); gl::Clear(gl::COLOR_BUFFER_BIT)
Clear ==
    /\ pc = "clear"
    /\ steps' = Append(steps, "clear")
    /\ pc' = "update_vel"
    /\ UNCHANGED <<glfwStatus, windowStatus, shouldClose, events, gpu, anim,
                   frames, count, hist>>

\* Variant: vely is advanced with the wrong sign.
UpdateVelocities_signSlip ==
    /\ pc = "update_vel"
    /\ velx' = F32Add(velx, DeltaX)
    /\ vely' = F32Add(vely, DeltaY)
    /\ velz' = F32Add(velz, -DeltaZ)
    /\ steps' = Append(steps, "update_vel")
    /\ pc' = "compose"
    /\ UNCHANGED <<glfwStatus, windowStatus, shouldClose, events, gpu, quat, uniform,
                   frames, count, hist>>

\* velx += 0.001; vely -= 0.003; velz -= 0.001
UpdateVelocities ==
    /\ pc = "update_vel"
    /\ velx' = F32Add(velx, DeltaX)
    /\ vely' = F32Add(vely, -DeltaY)
    /\ velz' = F32Add(velz, -DeltaZ)
    /\ steps' = Append(steps, "update_vel")
    /\ pc' = "compose"
    /\ UNCHANGED <<glfwStatus, windowStatus, shouldClose, events, gpu, quat, uniform,
                   frames, count, hist>>

\* Variant: the three rotations are applied in the order z, y, x.
ComposeRotation_zyx ==
    /\ pc = "compose"
    /\ quat' = mul_q(mul_q(mul_q(quat, from_angle_z(velz)),
                           from_angle_y(vely)),
                     from_angle_x(velx))
    /\ steps' = Append(steps, "compose")
    /\ pc' = "uniform"
    /\ UNCHANGED <<glfwStatus, windowStatus, shouldClose, events, gpu, velx, vely, velz,
                   uniform, frames, count, hist>>

\* quat = quat.mul_q(from_angle_x(velx)); ... from_angle_y(vely); ... from_angle_z(velz)
ComposeRotation ==
    /\ pc = "compose"
    /\ quat' = mul_q(mul_q(mul_q(quat, from_angle_x(velx)),
                           from_angle_y(vely)),
                     from_angle_z(velz))
    /\ steps' = Append(steps, "compose")
    /\ pc' = "uniform"
    /\ UNCHANGED <<glfwStatus, windowStatus, shouldClose, events, gpu, velx, vely, velz,
                   uniform, frames, count, hist>>

\* Variant: the matrix is uploaded in the first frame only.
UniformQuaternion_once ==
    /\ pc = "uniform"
    /\ uniform' = IF frames = 0 THEN to_matrix4(quat) ELSE uniform
    /\ nUniform' = IF frames = 0 THEN nUniform + 1 ELSE nUniform
    /\ steps' = Append(steps, "uniform")
    /\ pc' = "draw"
    /\ UNCHANGED <<glfwStatus, windowStatus, shouldClose, events, gpu, velx, vely, velz,
                   quat, frames, nDraw, nSwap, hist>>

\* uniform_quaternion(modelview, &quat)
UniformQuaternion ==
    /\ pc = "uniform"
    /\ uniform' = to_matrix4(quat)
    /\ nUniform' = nUniform + 1
    /\ steps' = Append(steps, "uniform")
    /\ pc' = "draw"
    /\ UNCHANGED <<glfwStatus, windowStatus, shouldClose, events, gpu, velx, vely, velz,
                   quat, frames, nDraw, nSwap, hist>>

\* gl::DrawArrays(gl::TRIANGLES, 0, 3)
DrawArrays ==
    /\ pc = "draw"
    /\ nDraw' = nDraw + 1
    /\ steps' = Append(steps, "draw")
    /\ pc' = "swap"
    /\ UNCHANGED <<glfwStatus, windowStatus, shouldClose, events, gpu, anim,
                   frames, nUniform, nSwap, hist>>

\* Variant: the cleanup has slipped into the loop body (the buffer is released
\* after every swap).
SwapBuffers_cleanupInLoop ==
    /\ pc = "swap"
    /\ nSwap' = nSwap + 1
    /\ frames' = frames + 1
    /\ steps' = Append(steps, "swap")
    /\ deleted' = Append(deleted, "vbo")
    /\ pc' = "loop_top"
    /\ UNCHANGED <<glfwStatus, windowStatus, shouldClose, events, shaderStatus, created,
                   anim, nUniform, nDraw, hist>>

\* window.swap_buffers(); the iteration is complete.
SwapBuffers ==
    /\ pc = "swap"
    /\ nSwap' = nSwap + 1
    /\ frames' = frames + 1
    /\ steps' = Append(steps, "swap")
    /\ pc' = "loop_top"
    /\ UNCHANGED <<glfwStatus, windowStatus, shouldClose, events, gpu, anim,
                   nUniform, nDraw, hist>>

-----------------------------------------------------------------------------
(* Cleanup *)

Delete(at, obj, next) ==
    /\ pc = at
    /\ deleted' = Append(deleted, obj)
    /\ pc' = next
    /\ UNCHANGED <<glfwStatus, windowStatus, shouldClose, events, shaderStatus,
                   created, anim, frames, steps, count, hist>>

\* Variant: the cleanup starts with the buffer instead of the program.
DeleteProgram_bufferFirst == Delete("delete_program", "vbo", "delete_fs")

\* gl::DeleteProgram(program)
DeleteProgram == Delete("delete_program", "program", "delete_fs")
\* gl::DeleteShader(fs)
DeleteFragmentShader == Delete("delete_fs", "fs", "delete_vs")
\* gl::DeleteShader(vs)
DeleteVertexShader == Delete("delete_vs", "vs", "delete_vbo")
\* gl::DeleteBuffers(1, &vbo)
DeleteBuffer == Delete("delete_vbo", "vbo", "delete_vao")
\* gl::DeleteVertexArrays(1, &vao); main returns.
DeleteVertexArray == Delete("delete_vao", "vao", "done")

-----------------------------------------------------------------------------

Next ==
    \/ GlfwInit
    \/ CreateWindow
    \/ CompileVertexShader
    \/ CompileFragmentShader
    \/ LinkProgram
    \/ GenVertexArray
    \/ GenBuffer
    \/ SetupAttribs
    \/ LoopEnter
    \/ LoopExit
    \/ PollEvents
    \/ HandleEvents
    \/ Clear
    \/ UpdateVelocities
    \/ ComposeRotation
    \/ UniformQuaternion
    \/ DrawArrays
    \/ SwapBuffers
    \/ DeleteProgram
    \/ DeleteFragmentShader
    \/ DeleteVertexShader
    \/ DeleteBuffer
    \/ DeleteVertexArray

Spec == Init /\ [][Next]_vars

\* main() is one thread that always takes its next step.
LiveSpec == Spec /\ WF_vars(Next)

-----------------------------------------------------------------------------
(* Vocabulary of the properties *)

BodyPcs == {"poll_events", "handle_events", "clear", "update_vel",
            "compose", "uniform", "draw", "swap"}
CleanupPcs == {"delete_program", "delete_fs", "delete_vs", "delete_vbo", "delete_vao"}
ExitedPcs == CleanupPcs \cup {"done"}

\* The statement that follows each statement of the loop body.
BodySucc(p) ==
    CASE p = "poll_events"   -> "handle_events"
      [] p = "handle_events" -> "clear"
      [] p = "clear"         -> "update_vel"
      [] p = "update_vel"    -> "compose"
      [] p = "compose"       -> "uniform"
      [] p = "uniform"       -> "draw"
      [] p = "draw"          -> "swap"
      [] p = "swap"          -> "loop_top"

\* How often the velocities / the quaternion have been advanced.
VelUpdates  == IF pc \in {"compose", "uniform", "draw", "swap"} THEN frames + 1 ELSE frames
QuatUpdates == IF pc \in {"uniform", "draw", "swap"} THEN frames + 1 ELSE frames

\* The velocity after n frames: n successive binary32 additions of d to 0.
RECURSIVE VelAfter(_, _)
VelAfter(n, d) == IF n = 0 THEN 0 ELSE F32Add(VelAfter(n - 1, d), d)

\* The quaternion after n frames, as a function of n alone.
RECURSIVE QuatAfter(_)
QuatAfter(n) ==
    IF n = 0 THEN QuatIdentity
    ELSE mul_q(mul_q(mul_q(QuatAfter(n - 1),
                           from_angle_x(VelAfter(n, DeltaX))),
                     from_angle_y(VelAfter(n, -DeltaY))),
               from_angle_z(VelAfter(n, -DeltaZ)))

AllCreatedOnce == \A o \in Objects : created[o] = 1

IsPrefix(s, t) == Len(s) <= Len(t) /\ s = SubSeq(t, 1, Len(s))

-----------------------------------------------------------------------------
(* C1 *)

\* C1: an Escape press never ends the loop early.  Whenever the first Escape
\* press was delivered in frame k, the frames 1..k-1 have been drawn and
\* presented; and if the loop has ended without a close request of the window
\* system, an Escape press was delivered in some frame k and at least k
\* frames have run to completion.
C1_EscapeNeverExitsEarly ==
    /\ escFrame # 0 =>
          /\ escFrame - 1 <= frames
          /\ escFrame - 1 <= nDraw
          /\ escFrame - 1 <= nSwap
    /\ (pc \in ExitedPcs /\ ~osClose) =>
          /\ escFrame >= 1
          /\ frames >= escFrame
          /\ nDraw >= escFrame
          /\ nSwap >= escFrame

\* The loop has ended after an Escape press delivered in frame 3.
C1_Witness ==
    pc \in ExitedPcs /\ ~osClose /\ escFrame = 3 /\ frames = 3

-----------------------------------------------------------------------------
(* C2 *)

\* A statement of the loop body is followed by the next one.
StaysInBody == pc \in BodyPcs => pc' = BodySucc(pc)
\* The loop is left only from the loop-top check, with the flag set.
ExitsOnlyAtLoopTop ==
    (pc' \in ExitedPcs /\ pc \notin ExitedPcs) => (pc = "loop_top" /\ shouldClose)

\* C2: once the close flag is set, main() eventually leaves the loop at the
\* loop-top check, runs the whole cleanup and returns; and inside the loop
\* body every statement is followed by the next statement of the body, whatever
\* the close flag is: the flag is only examined at the loop top.
C2_CloseLeadsToExit ==
    /\ (shouldClose ~> (pc = "done" /\ Len(deleted) = 5))
    /\ [][StaysInBody]_vars
    /\ [][ExitsOnlyAtLoopTop]_vars

\* main() has returned after the flag was set in the middle of frame 2.
C2_Witness ==
    pc = "done" /\ shouldClose /\ closeFrame = 2 /\ Len(deleted) = 5

-----------------------------------------------------------------------------
(* C3 *)

VelocitiesMonotone ==
    /\ pc = "update_vel" => (velx' > velx /\ vely' < vely /\ velz' < velz)
    /\ (pc \in BodyPcs /\ pc # "update_vel") => UNCHANGED <<velx, vely, velz>>

-----------------------------------------------------------------------------
(* C4 *)

\* C4: after n updates the accumulated quaternion is QuatAfter(n): the
\* identity right-multiplied, frame by frame, by the x-axis, then the y-axis,
\* then the z-axis rotation of that frame's updated velocities.  It depends
\* on n alone, not on the events received.
C4_QuaternionOrder ==
    quat = QuatAfter(QuatUpdates)

\* Three frames composed, with key events received on the way.
C4_Witness ==
    /\ pc = "draw" /\ frames = 2 /\ ignored > 0
    /\ quat.r = from_angle_z(velz)
    /\ quat.l.r = from_angle_y(vely)
    /\ quat.l.l.r = from_angle_x(velx)

-----------------------------------------------------------------------------
(* C5 *)

\* Position of each object in the cleanup: the program, then the two shaders,
\* then the buffer, then the vertex array.
CleanupRank(o) ==
    CASE o = "program" -> 1
      [] o \in {"vs", "fs"} -> 2
      [] o = "vbo" -> 3
      [] o = "vao" -> 4

\* C5: deletions happen only after the loop has ended, in the order program,
\* shaders, buffer, vertex array, each object once; when main() returns all
\* five objects have been deleted.
C5_CleanupOrder ==
    /\ deleted # <<>> => pc \in ExitedPcs
    /\ \A i, j \in DOMAIN deleted :
          i < j => /\ deleted[i] # deleted[j]
                   /\ CleanupRank(deleted[i]) <= CleanupRank(deleted[j])
    /\ pc = "done" => {deleted[i] : i \in DOMAIN deleted} = Objects
    /\ pc = "loop_top" /\ ~shouldClose => deleted = <<>>

\* The cleanup has finished after at least one frame.
C5_Witness ==
    pc = "done" /\ frames >= 1 /\ Len(deleted) = 5 /\ deleted[1] = "program" /\ deleted[5] = "vao"

-----------------------------------------------------------------------------
(* C6 *)

\* C6: no GPU object is ever created twice; from the first loop-top check to
\* the end of the loop, and in particular whenever a uniform upload or a draw
\* call is about to be issued, each of the five objects has been created
\* exactly once and none has been deleted.
C6_ObjectsAliveInLoop ==
    /\ \A o \in Objects : created[o] <= 1
    /\ pc \in BodyPcs \cup {"loop_top"} => (AllCreatedOnce /\ deleted = <<>>)
    /\ (nUniform > 0 \/ nDraw > 0) => AllCreatedOnce

\* The draw call of the third frame is about to be issued.
C6_Witness ==
    pc = "draw" /\ frames = 2 /\ AllCreatedOnce /\ deleted = <<>>

-----------------------------------------------------------------------------
(* C7 *)

\* What handle_events may change besides the close flag and the queue: nothing.
HandleEventsFrame ==
    UNCHANGED <<glfwStatus, windowStatus, shaderStatus, created, deleted,
                velx, vely, velz, quat, uniform, frames, nUniform, nDraw, nSwap>>

HandleEventsEffect ==
    pc = "handle_events" =>
        /\ shouldClose' = (shouldClose \/ HasEscapePress(events))
        /\ events' = <<>>
        /\ HandleEventsFrame

\* C7: handle_events sets the close flag exactly when the queue holds a key
\* event with key Escape and action Press, leaves the flag as it was
\* otherwise, drains the whole queue and changes nothing else.
C7_EscapePressOnly ==
    [][HandleEventsEffect]_vars

\* In frame 1 handle_events left the flag clear; in frame 2 it has drained a
\* queue of one Escape press and one other event and has set the flag.
C7_Witness ==
    /\ pc = "clear" /\ frames = 1 /\ events = <<>>
    /\ shouldClose /\ ~osClose /\ escFrame = 2 /\ closeFrame = 2 /\ ignored = 1

\* handle_events has drained a queue of two events, neither an Escape press,
\* and the flag is clear.
C7_Ignored ==
    pc = "clear" /\ ~shouldClose /\ ignored = 2 /\ events = <<>> /\ escFrame = 0

-----------------------------------------------------------------------------
(* C8 *)

\* C8: a failure of glfw::init or of create_window ends the process at once,
\* with no shader compiled, no GPU object created, no frame run and nothing
\* deleted; nothing else ends it that way: a shader that failed to compile or
\* a program that failed to link never does.
C8_OnlyInitFailuresAbort ==
    /\ (glfwStatus = "failed" \/ windowStatus = "failed") =>
          /\ pc = "aborted"
          /\ \A o \in Objects : created[o] = 0
          /\ \A o \in DOMAIN shaderStatus : shaderStatus[o] = "none"
          /\ frames = 0 /\ steps = <<>>
          /\ nUniform = 0 /\ nDraw = 0 /\ nSwap = 0
          /\ deleted = <<>>
    /\ pc = "aborted" => (glfwStatus = "failed" \/ windowStatus = "failed")
    /\ glfwStatus = "failed" => windowStatus = "pending"
    /\ (\E o \in DOMAIN shaderStatus : shaderStatus[o] = "failed") =>
          /\ pc # "aborted"
          /\ pc \notin {"glfw_init", "create_window"}

\* Window creation has failed and the process has ended.
C8_Witness ==
    pc = "aborted" /\ glfwStatus = "ok" /\ windowStatus = "failed"

\* The loop draws with a vertex shader that failed to compile.
C8_BrokenProgramDraws ==
    pc = "draw" /\ shaderStatus["vs"] = "failed" /\ shaderStatus["program"] = "failed"
    /\ frames = 1

-----------------------------------------------------------------------------
(* C9 *)

\* C9: the statements of an iteration run once each in the order FrameOrder;
\* the position in the body is the number of statements done; the upload of a
\* frame precedes its draw, which precedes its swap; and between iterations
\* the numbers of uploads, draws and swaps all equal the number of frames.
C9_FrameStepOrder ==
    /\ IsPrefix(steps, FrameOrder)
    /\ pc \in BodyPcs => FrameOrder[Len(steps) + 1] = pc
    /\ (pc \notin BodyPcs /\ frames > 0) => steps = FrameOrder
    /\ pc \notin BodyPcs => (nUniform = frames /\ nDraw = frames /\ nSwap = frames)
    /\ pc \in BodyPcs =>
          /\ nUniform = frames + (IF pc \in {"draw", "swap"} THEN 1 ELSE 0)
          /\ nDraw = frames + (IF pc = "swap" THEN 1 ELSE 0)
          /\ nSwap = frames
    /\ pc \in {"draw", "swap"} => uniform = to_matrix4(quat)
    /\ nDraw <= nUniform /\ nSwap <= nDraw

\* Three iterations are complete.
C9_Witness ==
    pc = "loop_top" /\ frames = 3 /\ steps = FrameOrder
    /\ nUniform = 3 /\ nDraw = 3 /\ nSwap = 3

-----------------------------------------------------------------------------
(* C10 *)

\* C10: the frame in which the close flag is first set is rendered in full.
\* Once the loop has ended, the number of completed frames is the number of
\* the frame in which the flag was first set (0 when it was set before the
\* first loop-top check), every one of these frames has advanced the
\* velocities and the quaternion, uploaded the uniform, drawn and swapped,
\* and when main() returns the cleanup has deleted all five objects.
C10_ClosingFrameRendered ==
    /\ pc \in ExitedPcs =>
          /\ closeFrame >= 0
          /\ frames = closeFrame
          /\ nUniform = closeFrame /\ nDraw = closeFrame /\ nSwap = closeFrame
          /\ velx = VelAfter(closeFrame, DeltaX)
          /\ quat = QuatAfter(closeFrame)
          /\ closeFrame > 0 => uniform = to_matrix4(quat)
    /\ (closeFrame = 0 /\ pc \notin {"create_window", "aborted"}) =>
          (frames = 0 /\ nDraw = 0 /\ pc \notin BodyPcs)
    /\ shouldClose <=> closeFrame >= 0
    /\ pc = "done" => Len(deleted) = 5

\* handle_events set the flag in frame 2; two frames were rendered and the
\* cleanup has run.
C10_Witness ==
    /\ pc = "done" /\ ~osClose /\ escFrame = 2 /\ closeFrame = 2
    /\ frames = 2 /\ nDraw = 2 /\ nSwap = 2 /\ Len(deleted) = 5

\* The flag was set before the first loop-top check: no frame, full cleanup.
C10_ZeroFrames ==
    pc = "done" /\ closeFrame = 0 /\ frames = 0 /\ nDraw = 0 /\ Len(deleted) = 5

=============================================================================
